---- MODULE Spec2Model ----
\* Style fingerprinting engine of niuverse/skills (code-style-imitator):
\* analyze_style.py (naming classifier, structural walker, formatting
\* scanner, structural metrics, single-file profiler) and analyze_project.py
\* (file discovery, naming merge, formatting merge, project run).
\*
\* Strings are sequences of one-character strings.  Proportions are kept in
\* hundredths (0.33 is 33): every proportion the code stores is the result of
\* round(x, 2).
EXTENDS Integers, Sequences, FiniteSets, TLC

VARIABLES
    pc,          \* "start" before a modelled call, "done" after it; the position in main during a run
    name,        \* argument of detect_naming_style
    style,       \* its return value
    tree,        \* ast.parse(content): the nodes ast.walk yields; ok is FALSE on SyntaxError
    naming,      \* NamingPatterns returned by analyze_naming_python
    content,     \* argument of analyze_formatting
    formatting,  \* FormattingPatterns returned by analyze_formatting
    patterns,    \* argument of merge_naming_patterns
    merged       \* NamingPatterns returned by merge_naming_patterns

\* The variables of the calls modelled one at a time
callVars == <<name, style, tree, naming, content, formatting, patterns, merged>>

VARIABLES
    fpatterns,   \* argument of merge_formatting_patterns
    fmerged      \* FormattingPatterns returned by merge_formatting_patterns

fmergeVars == <<fpatterns, fmerged>>

VARIABLES
    root,            \* parts of project_path, as given to main
    root_exists,     \* project_path.exists()
    extensions,      \* the extensions given to analyze_project
    disk,            \* the files below project_path, in the order rglob yields them
    files,           \* the list collect_files returned
    idx,             \* position of the loop over files (1-based)
    reports_by_lang, \* the per-language lists of reports
    stderr,          \* the messages printed to sys.stderr
    report,          \* the dict analyze_project returned
    emitted,         \* main has printed or written the JSON document
    exit_code        \* 0 when main returns, 1 after sys.exit(1)

runVars ==
    <<root, root_exists, extensions, disk, files, idx, reports_by_lang, stderr,
      report, emitted, exit_code>>

VARIABLES
    file_path,       \* argument of analyze_file
    style_report     \* StyleReport returned by analyze_file

fileVars == <<file_path, style_report>>

vars == <<pc, callVars, fmergeVars, runVars, fileVars>>

-----------------------------------------------------------------------------
\* Bounds

MaxNameLen == 4     \* identifiers given to the classifier
MaxNodes == 3       \* nodes of one parsed file
MaxTextLen == 5     \* characters of a free-form text
MaxLines == 3       \* lines of an indented text
MaxIndent == 12     \* leading spaces of a line of an indented text
MaxFileNodes == 3   \* nodes of each file whose report is merged
MaxFiles == 2       \* file reports given to one merge
MaxFormatFiles == 3 \* formatting reports given to one merge
MaxDisk == 3        \* files below the project root

-----------------------------------------------------------------------------
\* Characters (str methods of Python, restricted to the model's alphabet)

UpperChars == {"A", "B"}
LowerChars == {"a", "b", "x"}

\* str.isupper(): at least one cased character, and no lowercase one
isupper(s) ==
    /\ \E i \in DOMAIN s : s[i] \in UpperChars
    /\ \A i \in DOMAIN s : s[i] \notin LowerChars

\* str.islower(): at least one cased character, and no uppercase one
islower(s) ==
    /\ \E i \in DOMAIN s : s[i] \in LowerChars
    /\ \A i \in DOMAIN s : s[i] \notin UpperChars

\* '_' in name
HasUnderscore(s) == \E i \in DOMAIN s : s[i] = "_"

\* name.startswith(prefix) for a one-character prefix
startswith(s, c) == Len(s) > 0 /\ s[1] = c

\* All sequences over S of length at most n
SeqsUpTo(S, n) == UNION {[1..k -> S] : k \in 0..n}

-----------------------------------------------------------------------------
\* Naming classifier

StyleTags ==
    {"UPPER_SNAKE_CASE", "snake_case", "PascalCase", "camelCase", "_private",
     "other", "unknown"}

\* Variant: the leading-underscore test is made before the case tests.
detect_naming_style_private_first(n) ==
    IF Len(n) = 0 THEN "unknown"
    ELSE IF startswith(n, "_") THEN "_private"
    ELSE IF isupper(n) /\ HasUnderscore(n) THEN "UPPER_SNAKE_CASE"
    ELSE IF islower(n) /\ HasUnderscore(n) THEN "snake_case"
    ELSE IF n[1] \in UpperChars /\ ~HasUnderscore(n) THEN "PascalCase"
    ELSE IF n[1] \in LowerChars /\ ~HasUnderscore(n)
            /\ \E i \in DOMAIN n : n[i] \in UpperChars THEN "camelCase"
    ELSE "other"

\* Variant: the empty name is not tested for, and name[0] raises IndexError.
detect_naming_style_no_empty_check(n) ==
    IF isupper(n) /\ HasUnderscore(n) THEN "UPPER_SNAKE_CASE"
    ELSE IF islower(n) /\ HasUnderscore(n) THEN "snake_case"
    ELSE IF Len(n) = 0 THEN "IndexError"
    ELSE IF n[1] \in UpperChars /\ ~HasUnderscore(n) THEN "PascalCase"
    ELSE IF n[1] \in LowerChars /\ ~HasUnderscore(n)
            /\ \E i \in DOMAIN n : n[i] \in UpperChars THEN "camelCase"
    ELSE IF startswith(n, "_") THEN "_private"
    ELSE "other"

detect_naming_style(n) ==
    IF Len(n) = 0 THEN "unknown"
    ELSE IF isupper(n) /\ HasUnderscore(n) THEN "UPPER_SNAKE_CASE"
    ELSE IF islower(n) /\ HasUnderscore(n) THEN "snake_case"
    ELSE IF n[1] \in UpperChars /\ ~HasUnderscore(n) THEN "PascalCase"
    ELSE IF n[1] \in LowerChars /\ ~HasUnderscore(n)
            /\ \E i \in DOMAIN n : n[i] \in UpperChars THEN "camelCase"
    ELSE IF startswith(n, "_") THEN "_private"
    ELSE "other"

-----------------------------------------------------------------------------
\* Structural walker

Range(s) == {s[i] : i \in DOMAIN s}

\* list.count(x)
Count(s, x) == Cardinality({i \in DOMAIN s : s[i] = x})

\* round(num / den, 2) in hundredths, for 0 <= num and 0 < den < 40.  Python
\* rounds the binary value of num / den to the nearest hundredth; the value
\* lies exactly half-way between two hundredths only when 200 * num / den is
\* an odd integer, which for den < 40 makes num / den an odd multiple of 1/8:
\* that value is exact in binary and is rounded to the even hundredth.
Round2(num, den) ==
    LET q == (100 * num) \div den
        r == (100 * num) % den
    IN  IF 2 * r < den THEN q
        ELSE IF 2 * r > den THEN q + 1
        ELSE IF q % 2 = 0 THEN q ELSE q + 1

\* Variant: the proportion is truncated to two decimals instead of rounded.
calc_distribution_truncating(styles) ==
    [s \in Range(styles) |-> (100 * Count(styles, s)) \div Len(styles)]

\* The dict is a function from the style tags seen to their proportion in
\* hundredths; the empty list gives the empty dict.
calc_distribution(styles) ==
    [s \in Range(styles) |-> Round2(Count(styles, s), Len(styles))]

EmptyDict == [s \in {} |-> 0]

\* NamingPatterns(): every role an empty dict
EmptyNamingPatterns ==
    [variables |-> EmptyDict, functions |-> EmptyDict, classes |-> EmptyDict,
     constants |-> EmptyDict, private_vars |-> EmptyDict]

Roles == {"variables", "functions", "classes", "constants", "private_vars"}

\* Nodes of the syntax tree, as ast.walk yields them
\* A function with one annotation flag per parameter (arg.annotation), its
\* returns annotation and the kinds of the statements of its body; a body
\* statement is "Docstring" when it is an Expr of a str Constant
FunctionDefFull(n, a, annotations, returns, body) ==
    [type |-> "FunctionDef", name |-> n, args |-> a, targets |-> <<>>,
     annotations |-> annotations, returns |-> returns, body |-> body]
\* A function without annotations whose body is one pass statement
FunctionDef(n, a) == FunctionDefFull(n, a, [i \in DOMAIN a |-> FALSE], FALSE, <<"Pass">>)
ClassDef(n) == [type |-> "ClassDef", name |-> n, args |-> <<>>, targets |-> <<>>]
Assign(t) == [type |-> "Assign", name |-> <<>>, args |-> <<>>, targets |-> t]
OtherNode == [type |-> "Other", name |-> <<>>, args |-> <<>>, targets |-> <<>>]
NameTarget(n) == [kind |-> "Name", id |-> n]
AttributeTarget == [kind |-> "Attribute", id |-> <<>>]

\* name[1:]
Tail1(s) == SubSeq(s, 2, Len(s))

EmptyStyles == [var |-> <<>>, func |-> <<>>, class |-> <<>>, const |-> <<>>, private |-> <<>>]

\* for arg in node.args.args: var_styles.append(detect_naming_style(arg.arg))
RECURSIVE WalkArgs(_, _, _)
WalkArgs(args, i, acc) ==
    IF i > Len(args) THEN acc
    ELSE WalkArgs(args, i + 1,
                  [acc EXCEPT !.var = Append(@, detect_naming_style(args[i]))])

\* Variant: a target counts as a constant only when its tag is
\* UPPER_SNAKE_CASE.
RECURSIVE WalkTargets_constant_by_tag(_, _, _)
WalkTargets_constant_by_tag(targets, i, acc) ==
    IF i > Len(targets) THEN acc
    ELSE IF targets[i].kind # "Name" THEN WalkTargets_constant_by_tag(targets, i + 1, acc)
    ELSE
        LET id == targets[i].id
            st == detect_naming_style(id)
            a1 == IF st = "UPPER_SNAKE_CASE"
                  THEN [acc EXCEPT !.const = Append(@, st)]
                  ELSE [acc EXCEPT !.var = Append(@, st)]
            a2 == IF startswith(id, "_")
                  THEN [a1 EXCEPT !.private = Append(@, detect_naming_style(Tail1(id)))]
                  ELSE a1
        IN  WalkTargets_constant_by_tag(targets, i + 1, a2)

\* for target in node.targets: ...
RECURSIVE WalkTargets(_, _, _)
WalkTargets(targets, i, acc) ==
    IF i > Len(targets) THEN acc
    ELSE IF targets[i].kind # "Name" THEN WalkTargets(targets, i + 1, acc)
    ELSE
        LET id == targets[i].id
            st == detect_naming_style(id)
            a1 == IF isupper(id)
                  THEN [acc EXCEPT !.const = Append(@, st)]
                  ELSE [acc EXCEPT !.var = Append(@, st)]
            a2 == IF startswith(id, "_")
                  THEN [a1 EXCEPT !.private = Append(@, detect_naming_style(Tail1(id)))]
                  ELSE a1
        IN  WalkTargets(targets, i + 1, a2)

\* The body of "for node in ast.walk(tree)" for one node
WalkNode(node, acc) ==
    IF node.type = "FunctionDef" THEN
        LET a1 == [acc EXCEPT !.func = Append(@, detect_naming_style(node.name))]
            a2 == IF startswith(node.name, "_")
                  THEN [a1 EXCEPT !.private = Append(@, detect_naming_style(Tail1(node.name)))]
                  ELSE a1
        IN  WalkArgs(node.args, 1, a2)
    ELSE IF node.type = "ClassDef" THEN
        [acc EXCEPT !.class = Append(@, detect_naming_style(node.name))]
    ELSE IF node.type = "Assign" THEN
        WalkTargets(node.targets, 1, acc)
    ELSE acc

RECURSIVE Walk(_, _, _)
Walk(nodes, i, acc) ==
    IF i > Len(nodes) THEN acc
    ELSE Walk(nodes, i + 1, WalkNode(nodes[i], acc))

\* t.ok is FALSE when ast.parse raises SyntaxError
analyze_naming_python(t) ==
    IF ~t.ok THEN EmptyNamingPatterns
    ELSE
        LET st == Walk(t.nodes, 1, EmptyStyles)
        IN  [variables |-> calc_distribution(st.var),
             functions |-> calc_distribution(st.func),
             classes |-> calc_distribution(st.class),
             constants |-> calc_distribution(st.const),
             private_vars |-> calc_distribution(st.private)]

-----------------------------------------------------------------------------
\* Formatting scanner

\* Characters str.strip() and str.lstrip() remove; a line never holds "\n"
Whitespace == {" ", "\t", "\f"}

\* content.split('\n')
RECURSIVE split(_)
split(c) ==
    IF \A i \in DOMAIN c : c[i] # "\n" THEN <<c>>
    ELSE LET i == CHOOSE k \in DOMAIN c : c[k] = "\n" /\ \A j \in 1..(k - 1) : c[j] # "\n"
         IN  <<SubSeq(c, 1, i - 1)>> \o split(SubSeq(c, i + 1, Len(c)))

\* not line.strip()
IsBlank(line) == \A i \in DOMAIN line : line[i] \in Whitespace

\* line.lstrip()
lstrip(line) ==
    IF IsBlank(line) THEN <<>>
    ELSE LET i == CHOOSE k \in DOMAIN line :
                      line[k] \notin Whitespace /\ \A j \in 1..(k - 1) : line[j] \in Whitespace
         IN  SubSeq(line, i, Len(line))

\* The loop over the lines: indentations, spaces_count and tabs_count
RECURSIVE ScanIndent(_, _, _)
ScanIndent(lines, i, acc) ==
    IF i > Len(lines) THEN acc
    ELSE
        LET line == lines[i]
            indent == Len(line) - Len(lstrip(line))
        IN  IF IsBlank(line) \/ indent = 0 THEN ScanIndent(lines, i + 1, acc)
            ELSE ScanIndent(lines, i + 1,
                    [indentations |-> Append(acc.indentations, indent),
                     spaces_count |-> acc.spaces_count + (IF line[1] = " " THEN 1 ELSE 0),
                     tabs_count |-> acc.tabs_count + (IF line[1] = "\t" THEN 1 ELSE 0)])

indent_type(spaces_count, tabs_count) ==
    IF spaces_count > 0 /\ tabs_count = 0 THEN "spaces"
    ELSE IF tabs_count > 0 /\ spaces_count = 0 THEN "tabs"
    ELSE IF spaces_count > 0 /\ tabs_count > 0 THEN "mixed"
    ELSE "unknown"

\* math.gcd of two numbers
RECURSIVE gcd(_, _)
gcd(a, b) == IF b = 0 THEN a ELSE gcd(b, a % b)

\* math.gcd(*values)
RECURSIVE gcd_all(_)
gcd_all(values) ==
    IF values = {} THEN 0
    ELSE LET v == CHOOSE x \in values : TRUE IN gcd(v, gcd_all(values \ {v}))

\* Variant: the smallest indentation is taken as the indentation size.
indent_size_smallest(indentations) ==
    IF Len(indentations) = 0 THEN 0
    ELSE CHOOSE n \in Range(indentations) : \A k \in Range(indentations) : n <= k

\* Variant: the first indentation met is taken as the indentation size.
indent_size_first(indentations) ==
    IF Len(indentations) = 0 THEN 0 ELSE indentations[1]

indent_size(indentations) ==
    IF Len(indentations) = 0 THEN 0
    ELSE IF Cardinality(Range(indentations)) > 1 THEN gcd_all(Range(indentations))
    ELSE indentations[1]

\* [len(line) for line in lines if line.strip()]
line_lengths(lines) ==
    LET kept == SelectSeq(lines, LAMBDA l : ~IsBlank(l))
    IN  [i \in DOMAIN kept |-> Len(kept[i])]

RECURSIVE SumSeq(_, _)
SumSeq(s, i) == IF i > Len(s) THEN 0 ELSE s[i] + SumSeq(s, i + 1)

MaxOf(S) == CHOOSE n \in S : \A k \in S : k <= n

MinOf(S) == CHOOSE n \in S : \A k \in S : n <= k

\* len(re.findall(q [^q]* q, content)) from position i on: the leftmost quote
\* opens a match, the next one closes it, and the scan goes on after it
RECURSIVE findall_count(_, _, _)
findall_count(c, q, i) ==
    LET opens == {k \in i..Len(c) : c[k] = q}
    IN  IF opens = {} THEN 0
        ELSE LET o == CHOOSE k \in opens : \A j \in opens : k <= j
                 closes == {k \in (o + 1)..Len(c) : c[k] = q}
             IN  IF closes = {} THEN 0
                 ELSE LET e == CHOOSE k \in closes : \A j \in closes : k <= j
                      IN  1 + findall_count(c, q, e + 1)

quote_style(single_quotes, double_quotes) ==
    IF single_quotes > 0 /\ double_quotes = 0 THEN "single"
    ELSE IF double_quotes > 0 /\ single_quotes = 0 THEN "double"
    ELSE IF single_quotes > 0 /\ double_quotes > 0 THEN "mixed"
    ELSE "unknown"

analyze_formatting(c) ==
    LET lines == split(c)
        ind == ScanIndent(lines, 1, [indentations |-> <<>>, spaces_count |-> 0, tabs_count |-> 0])
        lens == line_lengths(lines)
    IN  [indentation_type |-> indent_type(ind.spaces_count, ind.tabs_count),
         indentation_size |-> indent_size(ind.indentations),
         line_length_mean |-> IF Len(lens) > 0 THEN SumSeq(lens, 1) \div Len(lens) ELSE 0,
         line_length_max |-> IF Len(lens) > 0 THEN MaxOf(Range(lens)) ELSE 0,
         quote_style |-> quote_style(findall_count(c, "'", 1), findall_count(c, "\"", 1)),
         trailing_newline |-> Len(c) > 0 /\ c[Len(c)] = "\n"]

-----------------------------------------------------------------------------
\* Naming merge

\* Variant: the mean is rounded to one decimal.
mean_round_one_decimal(values) ==
    LET S == SumSeq(values, 1)
        n == Len(values)
    IN  {10 * Round2(S, 1000 * n)}

\* round(sum(values) / len(values), 2): the hundredths the call can return.
\* The mean of n two-decimal values is rounded to the nearest hundredth.  When
\* the exact mean lies half-way between two hundredths, the result follows the
\* binary value of the floating-point quotient, which can fall on either side:
\* both hundredths are outcomes.
mean_round(values) ==
    LET S == SumSeq(values, 1)
        n == Len(values)
        q == S \div n
        r == S % n
    IN  IF 2 * r < n THEN {q}
        ELSE IF 2 * r > n THEN {q + 1}
        ELSE {q, q + 1}

\* result[key]: the values of key in the dicts that hold it, in list order
ValuesOf(dicts, key) ==
    LET holding == SelectSeq(dicts, LAMBDA d : key \in DOMAIN d)
    IN  [i \in DOMAIN holding |-> holding[i][key]]

\* The dicts merge_dicts can return: every key of any dict, with one of the
\* outcomes of the rounded mean of its values
merge_dicts(dicts) ==
    LET keys == UNION {DOMAIN dicts[i] : i \in DOMAIN dicts}
        low == [key \in keys |-> MinOf(mean_round(ValuesOf(dicts, key)))]
        halfway == {key \in keys : Cardinality(mean_round(ValuesOf(dicts, key))) > 1}
    IN  {[key \in keys |-> IF key \in up THEN MaxOf(mean_round(ValuesOf(dicts, key)))
                           ELSE low[key]] : up \in SUBSET halfway}

\* [p.role for p in patterns if p.role]
NonEmptyOf(pats, role) ==
    LET kept == SelectSeq(pats, LAMBDA p : DOMAIN p[role] # {})
    IN  [i \in DOMAIN kept |-> kept[i][role]]

\* merged.role after "if all_role: merged.role = merge_dicts(all_role)"
MergedRole(pats, role) ==
    IF Len(NonEmptyOf(pats, role)) > 0 THEN merge_dicts(NonEmptyOf(pats, role))
    ELSE {EmptyDict}

\* The NamingPatterns merge_naming_patterns can return
merge_naming_patterns(pats) ==
    {[variables |-> v, functions |-> f, classes |-> c, constants |-> k, private_vars |-> p] :
        v \in MergedRole(pats, "variables"), f \in MergedRole(pats, "functions"),
        c \in MergedRole(pats, "classes"), k \in MergedRole(pats, "constants"),
        p \in MergedRole(pats, "private_vars")}

-----------------------------------------------------------------------------
\* Formatting merge

\* FormattingPatterns(): the defaults of the dataclass
DefaultFormattingPatterns ==
    [indentation_type |-> "unknown", indentation_size |-> 0, line_length_mean |-> 0,
     line_length_max |-> 0, quote_style |-> "unknown", trailing_newline |-> TRUE]

\* The keys of the dict d[v] = d.get(v, 0) + 1 built over the values, in
\* insertion order: each value where it first occurs
RECURSIVE InsertionOrder(_, _, _)
InsertionOrder(values, i, keys) ==
    IF i > Len(values) THEN keys
    ELSE InsertionOrder(values, i + 1,
            IF values[i] \in Range(keys) THEN keys ELSE Append(keys, values[i]))

\* Variant: a later key with an equal count replaces the best one.
RECURSIVE max_by_count_last_wins(_, _, _, _)
max_by_count_last_wins(keys, values, i, best) ==
    IF i > Len(keys) THEN best
    ELSE max_by_count_last_wins(keys, values, i + 1,
            IF Count(values, keys[i]) >= Count(values, best) THEN keys[i] ELSE best)

\* max(d, key=d.get): the keys are visited in insertion order and a key
\* replaces the best one only when its count is strictly larger
RECURSIVE max_by_count(_, _, _, _)
max_by_count(keys, values, i, best) ==
    IF i > Len(keys) THEN best
    ELSE max_by_count(keys, values, i + 1,
            IF Count(values, keys[i]) > Count(values, best) THEN keys[i] ELSE best)

\* max(d, key=d.get) if d else default
most_common(values, default) ==
    IF Len(values) = 0 THEN default
    ELSE LET keys == InsertionOrder(values, 1, <<>>)
         IN  max_by_count(keys, values, 2, keys[1])

FieldOf(pats, field) == [i \in DOMAIN pats |-> pats[i][field]]

\* Variant: every indentation_size is counted, 0 included.
counted_sizes_with_zero(pats) == FieldOf(pats, "indentation_size")

\* The sizes counted in indent_sizes: "if p.indentation_size > 0"
counted_sizes(pats) ==
    SelectSeq(FieldOf(pats, "indentation_size"), LAMBDA n : n > 0)

\* Variant: the mean is rounded up.
truncated_mean_rounding_up(values) ==
    IF Len(values) = 0 THEN 0
    ELSE (SumSeq(values, 1) + Len(values) - 1) \div Len(values)

\* int(sum(values) / len(values)) if values else 0, for values >= 0
truncated_mean(values) ==
    IF Len(values) = 0 THEN 0 ELSE SumSeq(values, 1) \div Len(values)

\* Variant: any(p.trailing_newline for p in patterns)
all_trailing_newline_any(pats) == \E i \in DOMAIN pats : pats[i].trailing_newline

\* all(p.trailing_newline for p in patterns)
all_trailing_newline(pats) == \A i \in DOMAIN pats : pats[i].trailing_newline

\* Variant: a group without any counted size gets the size 4.
merge_formatting_patterns_size_default_four(pats) ==
    IF Len(pats) = 0 THEN DefaultFormattingPatterns
    ELSE [indentation_type |-> most_common(FieldOf(pats, "indentation_type"), "unknown"),
          indentation_size |-> most_common(counted_sizes(pats), 4),
          line_length_mean |-> truncated_mean(FieldOf(pats, "line_length_mean")),
          line_length_max |-> MaxOf(Range(FieldOf(pats, "line_length_max"))),
          quote_style |-> most_common(FieldOf(pats, "quote_style"), "unknown"),
          trailing_newline |-> all_trailing_newline(pats)]

\* merge_formatting_patterns: the FormattingPatterns of a group of files
merge_formatting_patterns(pats) ==
    IF Len(pats) = 0 THEN DefaultFormattingPatterns
    ELSE
        [indentation_type |-> most_common(FieldOf(pats, "indentation_type"), "unknown"),
         indentation_size |-> most_common(counted_sizes(pats), 0),
         line_length_mean |-> truncated_mean(FieldOf(pats, "line_length_mean")),
         line_length_max |-> MaxOf(Range(FieldOf(pats, "line_length_max"))),
         quote_style |-> most_common(FieldOf(pats, "quote_style"), "unknown"),
         trailing_newline |-> all_trailing_newline(pats)]

-----------------------------------------------------------------------------
\* Single-file profiler and project run

\* str.lower() on the letters of the model's file names
LowerChar(c) ==
    IF c = "P" THEN "p" ELSE IF c = "Y" THEN "y" ELSE IF c = "J" THEN "j"
    ELSE IF c = "S" THEN "s" ELSE c

lower(s) == [i \in DOMAIN s |-> LowerChar(s[i])]

\* Path.suffix: the final component from its last dot on, when that dot is
\* neither its first nor its last character
suffix(n) ==
    LET dots == {i \in DOMAIN n : n[i] = "."}
    IN  IF dots = {} THEN <<>>
        ELSE IF MaxOf(dots) = 1 \/ MaxOf(dots) = Len(n) THEN <<>>
        ELSE SubSeq(n, MaxOf(dots), Len(n))

\* The extensions dict of detect_language
LanguageTable ==
    {<<<<".", "p", "y">>, "python">>, <<<<".", "j", "s">>, "javascript">>,
     <<<<".", "t", "s">>, "typescript">>, <<<<".", "c", "p", "p">>, "cpp">>,
     <<<<".", "c", "c">>, "cpp">>, <<<<".", "c", "x", "x">>, "cpp">>,
     <<<<".", "c">>, "c">>, <<<<".", "h">>, "cpp">>, <<<<".", "h", "p", "p">>, "cpp">>,
     <<<<".", "j", "a", "v", "a">>, "java">>, <<<<".", "g", "o">>, "go">>,
     <<<<".", "r", "s">>, "rust">>}

\* extensions.get(key, 'unknown')
TableGet(key) ==
    IF \E e \in LanguageTable : e[1] = key
    THEN (CHOOSE e \in LanguageTable : e[1] = key)[2]
    ELSE "unknown"

\* Variant: the suffix is looked up as written.
detect_language_case_sensitive(n) == TableGet(suffix(n))

\* detect_language reads the name of the file alone
detect_language(n) == TableGet(lower(suffix(n)))

\* round(num / den, 1) in tenths; no quotient of the model lies half-way
Round1(num, den) ==
    LET q == (10 * num) \div den
        r == (10 * num) % den
    IN  IF 2 * r < den THEN q
        ELSE IF 2 * r > den THEN q + 1
        ELSE IF q % 2 = 0 THEN q ELSE q + 1

\* Variant: every annotation of a function counts.
type_hint_usage_per_annotation(funcs) ==
    SumSeq([i \in DOMAIN funcs |->
               (IF funcs[i].returns THEN 1 ELSE 0)
               + Len(SelectSeq(funcs[i].annotations, LAMBDA b : b))], 1)

\* if node.returns or any(arg.annotation for arg in node.args.args)
type_hint_usage(funcs) ==
    Len(SelectSeq(funcs, LAMBDA n : n.returns \/ \E k \in DOMAIN n.annotations : n.annotations[k]))

\* node.body and node.body[0] is an Expr of a str Constant
docstring_usage(funcs) ==
    Len(SelectSeq(funcs, LAMBDA n : Len(n.body) > 0 /\ n.body[1] = "Docstring"))

\* analyze_patterns_python: {} when ast.parse raises SyntaxError; the mean
\* length is in tenths and the rates are in hundredths
analyze_patterns_python(t) ==
    IF ~t.ok THEN EmptyDict
    ELSE
        LET funcs == SelectSeq(t.nodes, LAMBDA n : n.type = "FunctionDef")
            func_lengths == [i \in DOMAIN funcs |-> Len(funcs[i].body)]
            function_count == Len(funcs)
        IN  [function_count |-> function_count,
             class_count |-> Len(SelectSeq(t.nodes, LAMBDA n : n.type = "ClassDef")),
             function_length |->
                 [mean |-> IF Len(func_lengths) > 0
                           THEN Round1(SumSeq(func_lengths, 1), Len(func_lengths)) ELSE 0,
                  max |-> IF Len(func_lengths) > 0 THEN MaxOf(Range(func_lengths)) ELSE 0,
                  min |-> IF Len(func_lengths) > 0 THEN MinOf(Range(func_lengths)) ELSE 0],
             type_hint_usage |->
                 [count |-> type_hint_usage(funcs),
                  rate |-> IF function_count > 0
                           THEN Round2(type_hint_usage(funcs), function_count) ELSE 0],
             docstring_usage |->
                 [count |-> docstring_usage(funcs),
                  rate |-> IF function_count > 0
                           THEN Round2(docstring_usage(funcs), function_count) ELSE 0]]

\* Variant: the walker runs whatever the language.
StyleReport_walks_every_language(f) ==
    [file_path |-> f,
     language |-> detect_language(f.name),
     naming |-> analyze_naming_python(f.tree),
     patterns |-> analyze_patterns_python(f.tree),
     formatting |-> analyze_formatting(f.content)]

\* The report of a file that was read; file_path holds the file itself
StyleReport(f) ==
    [file_path |-> f,
     language |-> detect_language(f.name),
     naming |-> IF detect_language(f.name) = "python"
                THEN analyze_naming_python(f.tree) ELSE EmptyNamingPatterns,
     patterns |-> IF detect_language(f.name) = "python"
                  THEN analyze_patterns_python(f.tree) ELSE EmptyDict,
     formatting |-> analyze_formatting(f.content)]

NoReport == [file_path |-> <<>>, language |-> "", naming |-> EmptyNamingPatterns,
             patterns |-> EmptyDict, formatting |-> DefaultFormattingPatterns]

\* Variant: the SyntaxError of ast.parse is not caught and leaves analyze_file.
analyze_file_parse_raises(f) ==
    IF ~f.readable \/ (detect_language(f.name) = "python" /\ ~f.tree.ok)
    THEN [ok |-> FALSE, report |-> NoReport]
    ELSE [ok |-> TRUE, report |-> StyleReport(f)]

\* analyze_file: ok is FALSE when read_text raises (the file cannot be read or
\* decoded)
analyze_file(f) ==
    IF ~f.readable THEN [ok |-> FALSE, report |-> NoReport]
    ELSE [ok |-> TRUE, report |-> StyleReport(f)]

DefaultExtensions ==
    <<<<".", "p", "y">>, <<".", "j", "s">>, <<".", "t", "s">>, <<".", "c", "p", "p">>,
      <<".", "c", "c">>, <<".", "c">>, <<".", "h">>, <<".", "h", "p", "p">>,
      <<".", "j", "a", "v", "a">>, <<".", "g", "o">>>>

ExcludeDirs ==
    {"node_modules", "vendor", "third_party", "build", "dist", "__pycache__",
     ".git", ".venv", "venv", ".tox", ".pytest_cache"}

\* The name matches the pattern '*' + ext
MatchesExtension(n, ext) ==
    Len(n) >= Len(ext) /\ SubSeq(n, Len(n) - Len(ext) + 1, Len(n)) = ext

\* for ext in extensions: files.extend(project_path.rglob(f'*{ext}'))
RECURSIVE GlobAll(_, _, _)
GlobAll(dk, exts, i) ==
    IF i > Len(exts) THEN <<>>
    ELSE SelectSeq(dk, LAMBDA f : MatchesExtension(f.name, exts[i])) \o GlobAll(dk, exts, i + 1)

\* any(part in exclude_dirs for part in f.parts): the parts are those of
\* project_path followed by the directories below it; the file names of the
\* model are no directory names of the exclude set
IsExcluded(rt, f) == \E i \in DOMAIN (rt \o f.dirs) : (rt \o f.dirs)[i] \in ExcludeDirs

collect_files(rt, dk, exts) == SelectSeq(GlobAll(dk, exts, 1), LAMBDA f : ~IsExcluded(rt, f))

Languages == {"python", "javascript", "typescript", "cpp", "c", "java", "go"}

\* Variant: every language of reports_by_lang gets an entry.
LanguagesEmitted_all(rbl) == DOMAIN rbl

\* The languages that pass "if not reports: continue"
LanguagesEmitted(rbl) == {l \in DOMAIN rbl : Len(rbl[l]) > 0}

\* Variant: total_files counts the accumulated reports.
Aggregated_total_counts_reports(rt, fs, rbl) ==
    LET langs == LanguagesEmitted(rbl)
        namings(l) == merge_naming_patterns(FieldOf(rbl[l], "naming"))
    IN  {[project |-> rt[Len(rt)],
          total_files |-> SumSeq([k \in 1..Len(fs) |->
                                     IF analyze_file(fs[k]).ok
                                        /\ detect_language(fs[k].name) \in DOMAIN rbl
                                     THEN 1 ELSE 0], 1),
          languages |->
              [l \in langs |->
                  [file_count |-> Len(rbl[l]),
                   naming |-> nm[l],
                   formatting |-> merge_formatting_patterns(FieldOf(rbl[l], "formatting"))]]] :
            nm \in {n \in [langs -> UNION {namings(l) : l \in langs}] :
                       \A l \in langs : n[l] \in namings(l)}}

\* The dicts analyze_project can return after the loop (the merged naming has
\* the outcomes of merge_naming_patterns)
Aggregated(rt, fs, rbl) ==
    LET langs == LanguagesEmitted(rbl)
        namings(l) == merge_naming_patterns(FieldOf(rbl[l], "naming"))
    IN  {[project |-> rt[Len(rt)],
          total_files |-> Len(fs),
          languages |->
              [l \in langs |->
                  [file_count |-> Len(rbl[l]),
                   naming |-> nm[l],
                   formatting |-> merge_formatting_patterns(FieldOf(rbl[l], "formatting"))]]] :
            nm \in {n \in [langs -> UNION {namings(l) : l \in langs}] :
                       \A l \in langs : n[l] \in namings(l)}}

\* print(f"Warning: Could not analyze {file_path}: {e}", file=sys.stderr)
Warning(f) == [kind |-> "could_not_analyze", file |-> f]

-----------------------------------------------------------------------------
\* Defaults of the variables a specification does not use

NoName == <<>>
NoStyle == "none"
NoTree == [ok |-> FALSE, nodes |-> <<>>]
NoNaming == "none"
NoContent == <<>>
NoFormatting == "none"
NoPatterns == <<>>
NoMerged == "none"

\* merge_formatting_patterns is not called
FormatMergeIdle == fpatterns = <<>> /\ fmerged = "none"

\* No project run is made
RunIdle ==
    /\ root = <<>> /\ root_exists = FALSE /\ extensions = <<>> /\ disk = <<>>
    /\ files = <<>> /\ idx = 0 /\ reports_by_lang = <<>> /\ stderr = <<>>
    /\ report = <<>> /\ emitted = FALSE /\ exit_code = 0

NoFile == [dirs |-> <<>>, name |-> <<>>, readable |-> FALSE, content |-> <<>>, tree |-> NoTree]

FileIdle == file_path = NoFile /\ style_report = NoReport

\* The single calls are not made
CallsIdle ==
    /\ name = NoName /\ style = NoStyle
    /\ tree = NoTree /\ naming = NoNaming
    /\ content = NoContent /\ formatting = NoFormatting
    /\ patterns = NoPatterns /\ merged = NoMerged

-----------------------------------------------------------------------------
\* SpecClassify: one call of detect_naming_style on any bounded identifier

NameChars == {"a", "B", "_", "1"}

InitClassify ==
    /\ pc = "start"
    /\ FormatMergeIdle /\ RunIdle /\ FileIdle
    /\ name \in SeqsUpTo(NameChars, MaxNameLen)
    /\ style = NoStyle
    /\ tree = NoTree /\ naming = NoNaming
    /\ content = NoContent /\ formatting = NoFormatting
    /\ patterns = NoPatterns /\ merged = NoMerged

Classify ==
    /\ pc = "start"
    /\ style' = detect_naming_style(name)
    /\ pc' = "done"
    /\ UNCHANGED <<name, tree, naming, content, formatting, patterns, merged>>
    /\ UNCHANGED <<fmergeVars, runVars, fileVars>>

NextClassify == Classify

SpecClassify == InitClassify /\ [][NextClassify]_vars

-----------------------------------------------------------------------------
\* SpecNaming: one call of analyze_naming_python on any bounded syntax tree

SnakeName == <<"a", "_", "b">>
CamelName == <<"a", "B">>
PascalName == <<"A", "b">>
UpperSnakeName == <<"A", "_", "B">>
UpperName == <<"A", "B">>
PrivateMixedName == <<"_", "a", "B">>
PrivateLowerName == <<"_", "a">>
PlainName == <<"x">>

WalkNodes ==
    {FunctionDef(n, <<>>) :
        n \in {SnakeName, CamelName, PascalName, PrivateMixedName, PrivateLowerName}}
    \cup {FunctionDef(SnakeName, <<a>>) : a \in {PlainName, PrivateLowerName}}
    \cup {ClassDef(n) : n \in {PascalName, SnakeName}}
    \cup {Assign(<<NameTarget(n)>>) :
        n \in {UpperSnakeName, UpperName, SnakeName, CamelName, PrivateMixedName}}
    \cup {Assign(<<AttributeTarget>>),
          Assign(<<NameTarget(SnakeName), NameTarget(UpperSnakeName)>>),
          OtherNode}

ParseFailure == [ok |-> FALSE, nodes |-> <<>>]

Trees(nodes, n) == {ParseFailure} \cup {[ok |-> TRUE, nodes |-> s] : s \in SeqsUpTo(nodes, n)}

InitNaming ==
    /\ pc = "start"
    /\ FormatMergeIdle /\ RunIdle /\ FileIdle
    /\ tree \in Trees(WalkNodes, MaxNodes)
    /\ naming = NoNaming
    /\ name = NoName /\ style = NoStyle
    /\ content = NoContent /\ formatting = NoFormatting
    /\ patterns = NoPatterns /\ merged = NoMerged

AnalyzeNaming ==
    /\ pc = "start"
    /\ naming' = analyze_naming_python(tree)
    /\ pc' = "done"
    /\ UNCHANGED <<name, style, tree, content, formatting, patterns, merged>>
    /\ UNCHANGED <<fmergeVars, runVars, fileVars>>

NextNaming == AnalyzeNaming

SpecNaming == InitNaming /\ [][NextNaming]_vars

-----------------------------------------------------------------------------
\* Claims about the naming classifier (SpecClassify)

\* The rules of the decision order, each stated on its own
Rule1(n) == isupper(n) /\ HasUnderscore(n)
Rule2(n) == islower(n) /\ HasUnderscore(n)
Rule3(n) == n[1] \in UpperChars /\ ~HasUnderscore(n)
Rule4(n) == n[1] \in LowerChars /\ ~HasUnderscore(n) /\ \E i \in DOMAIN n : n[i] \in UpperChars
Rule5(n) == n[1] = "_"

RuleTags == <<"UPPER_SNAKE_CASE", "snake_case", "PascalCase", "camelCase", "_private", "other">>

RuleMatches(n) == <<Rule1(n), Rule2(n), Rule3(n), Rule4(n), Rule5(n), TRUE>>

FirstMatch(n) == CHOOSE i \in 1..6 : RuleMatches(n)[i] /\ \A j \in 1..(i - 1) : ~RuleMatches(n)[j]

\* C5: for every non-empty identifier detect_naming_style returns the tag of
\* the first rule that matches, in the order UPPER_SNAKE_CASE, snake_case,
\* PascalCase, camelCase, _private, other; a name like MY_CONST (here B_B) is
\* UPPER_SNAKE_CASE and never PascalCase.
C5_FirstMatchWins ==
    (pc = "done" /\ Len(name) > 0) =>
        /\ style = RuleTags[FirstMatch(name)]
        /\ (name = <<"B", "_", "B">> => style = "UPPER_SNAKE_CASE")

\* A name on which rule 2 and rule 5 both match has been classified.
C5_Witness ==
    /\ pc = "done" /\ Len(name) > 0
    /\ Rule2(name) /\ Rule5(name) /\ style = "snake_case"

\* C6: detect_naming_style returns one tag of the fixed set for every string,
\* and returns unknown exactly for the empty string.
C6_TotalFixedSet ==
    pc = "done" => (style \in StyleTags /\ (style = "unknown" <=> Len(name) = 0))

\* The empty string has been classified.
C6_Witness == pc = "done" /\ Len(name) = 0 /\ style = "unknown"

-----------------------------------------------------------------------------
\* Claims about the per-file distributions (SpecNaming)

RECURSIVE SumOver(_, _)
SumOver(d, keys) ==
    IF keys = {} THEN 0
    ELSE LET k == CHOOSE x \in keys : TRUE IN d[k] + SumOver(d, keys \ {k})

\* Sum of the weights of a dict, in hundredths
DictSum(d) == SumOver(d, DOMAIN d)

\* C2: every per-file distribution is empty or has non-negative weights that
\* sum to 1.0 within 1e-6 (exactly 100 hundredths).
C2_FileDistributionSumsToOne ==
    pc = "done" =>
        \A r \in Roles :
            \/ DOMAIN naming[r] = {}
            \/ /\ \A k \in DOMAIN naming[r] : naming[r][k] >= 0
               /\ DictSum(naming[r]) = 100

-----------------------------------------------------------------------------
\* SpecFormat: one call of analyze_formatting on any bounded text

TextChars == {" ", "\t", "\f", "x", "'", "\"", "\n"}

\* Every text of at most MaxTextLen characters
FreeTexts == SeqsUpTo(TextChars, MaxTextLen)

\* A line "x" behind n spaces, with its newline
IndentedLine(n) == [i \in 1..(n + 2) |-> IF i <= n THEN " " ELSE IF i = n + 1 THEN "x" ELSE "\n"]

RECURSIVE JoinLines(_, _)
JoinLines(indents, i) ==
    IF i > Len(indents) THEN <<>>
    ELSE IndentedLine(indents[i]) \o JoinLines(indents, i + 1)

\* Every text of at most MaxLines lines, each behind 0..MaxIndent spaces
IndentedTexts == {JoinLines(s, 1) : s \in SeqsUpTo(0..MaxIndent, MaxLines)}

InitFormat ==
    /\ pc = "start"
    /\ FormatMergeIdle /\ RunIdle /\ FileIdle
    /\ content \in FreeTexts \cup IndentedTexts
    /\ formatting = NoFormatting
    /\ name = NoName /\ style = NoStyle
    /\ tree = NoTree /\ naming = NoNaming
    /\ patterns = NoPatterns /\ merged = NoMerged

AnalyzeFormatting ==
    /\ pc = "start"
    /\ formatting' = analyze_formatting(content)
    /\ pc' = "done"
    /\ UNCHANGED <<name, style, tree, naming, content, patterns, merged>>
    /\ UNCHANGED <<fmergeVars, runVars, fileVars>>

NextFormat == AnalyzeFormatting

SpecFormat == InitFormat /\ [][NextFormat]_vars

-----------------------------------------------------------------------------
\* Claims about the formatting scanner (SpecFormat)

\* Number of whitespace characters a line starts with
LeadingWhitespace(line) ==
    Cardinality({k \in DOMAIN line : \A j \in 1..k : line[j] \in Whitespace})

NonBlankLines(c) == {l \in Range(split(c)) : \E i \in DOMAIN l : l[i] \notin Whitespace}

IndentedLines(c) == {l \in NonBlankLines(c) : LeadingWhitespace(l) > 0}

\* The distinct leading-whitespace lengths of the indented non-blank lines
ObservedIndents(c) == {LeadingWhitespace(l) : l \in IndentedLines(c)}

Divides(d, S) == \A n \in S : n % d = 0

\* Greatest common divisor of a non-empty set of positive numbers
GreatestCommonDivisor(S) ==
    CHOOSE d \in 1..MaxOf(S) : Divides(d, S) /\ \A e \in 1..MaxOf(S) : Divides(e, S) => e <= d

\* C7: with at least one indented non-blank line, indentation_size is the
\* greatest common divisor of the distinct leading-whitespace lengths of the
\* indented non-blank lines (a single length is returned as itself).
C7_IndentSizeIsGcd ==
    (pc = "done" /\ ObservedIndents(content) # {}) =>
        formatting.indentation_size = GreatestCommonDivisor(ObservedIndents(content))

\* A text indented at depths 4, 8 and 12 has been given width 4.
C7_Witness ==
    /\ pc = "done"
    /\ ObservedIndents(content) = {4, 8, 12}
    /\ formatting.indentation_size = 4

\* C8 as stated: a non-zero indentation_size is an observed indent length or a
\* difference between two observed indent lengths.
C8_IndentSizeOccurred ==
    (pc = "done" /\ formatting.indentation_size # 0) =>
        formatting.indentation_size \in
            ObservedIndents(content)
            \cup {a - b : a, b \in ObservedIndents(content)}

\* C8 amended: a non-zero indentation_size divides every observed indent
\* length, so it never exceeds the smallest one, and it is an observed indent
\* length whenever every observed length is a multiple of the smallest.
C8_IndentSizeDividesObserved ==
    (pc = "done" /\ formatting.indentation_size # 0) =>
        LET obs == ObservedIndents(content)
            size == formatting.indentation_size
        IN  /\ obs # {}
            /\ Divides(size, obs)
            /\ size <= MinOf(obs)
            /\ (Divides(MinOf(obs), obs) => size = MinOf(obs))

\* A text indented at depths 4 and 10 has been given width 2.
C8_Witness ==
    /\ pc = "done"
    /\ ObservedIndents(content) = {4, 10}
    /\ formatting.indentation_size = 2

\* String literals by lexical scanning: outside a literal a quote character
\* opens a literal that the next occurrence of the same character closes.  The
\* result counts the literals of each kind and tells whether every quote
\* character of the text opened or closed a literal or lay inside one.
RECURSIVE LexLiterals(_, _, _)
LexLiterals(c, i, acc) ==
    IF i > Len(c) THEN acc
    ELSE IF c[i] \notin {"'", "\""} THEN LexLiterals(c, i + 1, acc)
    ELSE
        LET closes == {k \in (i + 1)..Len(c) : c[k] = c[i]}
        IN  IF closes = {} THEN LexLiterals(c, i + 1, [acc EXCEPT !.closed = FALSE])
            ELSE LexLiterals(c, MinOf(closes) + 1,
                    IF c[i] = "'" THEN [acc EXCEPT !.single = @ + 1]
                    ELSE [acc EXCEPT !.double = @ + 1])

Literals(c) == LexLiterals(c, 1, [single |-> 0, double |-> 0, closed |-> TRUE])

\* C9: quote_style is double when the text holds only double-quoted literals,
\* single when it holds only single-quoted literals, mixed when it holds both
\* and unknown when it holds neither, whatever the literals contain (texts in
\* which every literal is closed).
C9_QuoteStyleByLiterals ==
    (pc = "done" /\ Literals(content).closed) =>
        formatting.quote_style =
            quote_style(Literals(content).single, Literals(content).double)

\* C10: indentation_type is spaces when the indented non-blank lines lead only
\* with spaces, tabs when they lead only with tabs, mixed when one leads with
\* a space and another with a tab, and unknown exactly when no non-blank line
\* has leading whitespace.
C10_IndentTypeByLeadingCharacter ==
    pc = "done" =>
        LET ind == IndentedLines(content)
            sp == {l \in ind : l[1] = " "}
            tb == {l \in ind : l[1] = "\t"}
        IN  /\ (ind # {} /\ sp = ind) => formatting.indentation_type = "spaces"
            /\ (ind # {} /\ tb = ind) => formatting.indentation_type = "tabs"
            /\ (sp # {} /\ tb # {}) => formatting.indentation_type = "mixed"
            /\ formatting.indentation_type = "unknown" <=> ind = {}

-----------------------------------------------------------------------------
\* SpecMerge: one call of merge_naming_patterns on the naming reports of any
\* bounded list of parsed files

MergeNodes ==
    {FunctionDef(SnakeName, <<>>), FunctionDef(CamelName, <<>>),
     ClassDef(PascalName), Assign(<<NameTarget(UpperSnakeName)>>)}

\* The naming reports of the files of at most MaxFileNodes nodes
FileNamings == {analyze_naming_python(t) : t \in Trees(MergeNodes, MaxFileNodes)}

InitMerge ==
    /\ pc = "start"
    /\ FormatMergeIdle /\ RunIdle /\ FileIdle
    /\ patterns \in SeqsUpTo(FileNamings, MaxFiles)
    /\ merged = NoMerged
    /\ name = NoName /\ style = NoStyle
    /\ tree = NoTree /\ naming = NoNaming
    /\ content = NoContent /\ formatting = NoFormatting

MergeNaming ==
    /\ pc = "start"
    /\ merged' \in merge_naming_patterns(patterns)
    /\ pc' = "done"
    /\ UNCHANGED <<name, style, tree, naming, content, formatting, patterns>>
    /\ UNCHANGED <<fmergeVars, runVars, fileVars>>

NextMerge == MergeNaming

SpecMerge == InitMerge /\ [][NextMerge]_vars

-----------------------------------------------------------------------------
\* Claims about the naming merge (SpecMerge)

\* The files that observed at least one identifier of the role
Contributing(pats, role) == {i \in DOMAIN pats : DOMAIN pats[i][role] # {}}

\* The tag's proportion in a file, 0 when the file lacks the tag
ProportionOf(d, tag) == IF tag \in DOMAIN d THEN d[tag] ELSE 0

RECURSIVE SumProportions(_, _, _, _)
SumProportions(pats, role, tag, contrib) ==
    IF contrib = {} THEN 0
    ELSE LET i == CHOOSE x \in contrib : TRUE
         IN  ProportionOf(pats[i][role], tag)
             + SumProportions(pats, role, tag, contrib \ {i})

\* The hundredths nearest to total / n (both neighbours when half-way)
NearestHundredths(total, n) ==
    {h \in 0..100 : 2 * (h * n - total) <= n /\ 2 * (total - h * n) <= n}

\* C1: every tag of any contributing file gets the mean of its per-file
\* proportion over all the files whose distribution for the role is non-empty,
\* a file lacking the tag counting as 0; functions 100% snake_case merged with
\* functions 100% camelCase give {snake_case: 0.5, camelCase: 0.5}.
C1_MeanOverContributingFiles ==
    pc = "done" =>
        \A r \in Roles :
            LET contrib == Contributing(patterns, r)
                tags == UNION {DOMAIN patterns[i][r] : i \in contrib}
            IN  /\ DOMAIN merged[r] = tags
                /\ \A t \in tags :
                       merged[r][t] \in
                           NearestHundredths(SumProportions(patterns, r, t, contrib),
                                             Cardinality(contrib))

\* C3: every merged distribution is empty or has non-negative weights that sum
\* to 1 within rounding (one hundredth for each tag).
C3_MergedDistributionSumsToOne ==
    pc = "done" =>
        \A r \in Roles :
            \/ DOMAIN merged[r] = {}
            \/ /\ \A k \in DOMAIN merged[r] : merged[r][k] >= 0
               /\ DictSum(merged[r]) >= 100 - Cardinality(DOMAIN merged[r])
               /\ DictSum(merged[r]) <= 100 + Cardinality(DOMAIN merged[r])

\* C4: merging a single file's NamingPatterns returns, for every role, that
\* file's own distribution; an empty role stays empty.
C4_SingletonMergeIsIdentity ==
    (pc = "done" /\ Len(patterns) = 1) =>
        \A r \in Roles : merged[r] = patterns[1][r]

\* A single file with a 0.33 / 0.67 distribution and an empty role was merged.
C4_Witness ==
    /\ pc = "done" /\ Len(patterns) = 1
    /\ \E r \in Roles : \E k \in DOMAIN patterns[1][r] : patterns[1][r][k] = 33
    /\ \E r \in Roles : DOMAIN patterns[1][r] = {}
    /\ merged = patterns[1]

-----------------------------------------------------------------------------
\* SpecFormatMerge: one call of merge_formatting_patterns on the formatting
\* reports of any bounded list of texts

\* A line at the margin, then one behind four spaces
TextSpaces4 == IndentedLine(0) \o IndentedLine(4)
\* A line at the margin, then one behind two spaces that holds 'x'
TextSpaces2 == IndentedLine(0) \o <<" ", " ", "'", "x", "'", "\n">>
\* A line behind a tab that holds "xxx", without a final newline
TextTabs == <<"x", "\n", "\t", "\"", "x", "x", "x", "\"">>
\* One line 'xx', not indented
TextSingle == <<"'", "x", "x", "'", "\n">>
\* One line "x" 'x', not indented, without a final newline
TextMixed == <<"\"", "x", "\"", " ", "'", "x", "'">>
\* One line x, without a final newline
TextPlain == <<"x">>

MergeTexts == {TextSpaces4, TextSpaces2, TextTabs, TextSingle, TextMixed, TextPlain}

\* The formatting reports of the texts
FileFormattings == {analyze_formatting(c) : c \in MergeTexts}

InitFormatMerge ==
    /\ pc = "start"
    /\ fpatterns \in SeqsUpTo(FileFormattings, MaxFormatFiles)
    /\ fmerged = "none"
    /\ CallsIdle /\ RunIdle /\ FileIdle

MergeFormatting ==
    /\ pc = "start"
    /\ fmerged' = merge_formatting_patterns(fpatterns)
    /\ pc' = "done"
    /\ UNCHANGED <<callVars, fpatterns, runVars, fileVars>>

NextFormatMerge == MergeFormatting

SpecFormatMerge == InitFormatMerge /\ [][NextFormatMerge]_vars

-----------------------------------------------------------------------------
\* Claims about the formatting merge (SpecFormatMerge)

FirstIndex(values, v) == MinOf({i \in DOMAIN values : values[i] = v})

\* The value held most often; among the values held equally often, the one
\* that occurs first
MostFrequentFirst(values) ==
    CHOOSE v \in Range(values) :
        \A w \in Range(values) :
            \/ Count(values, v) > Count(values, w)
            \/ /\ Count(values, v) = Count(values, w)
               /\ FirstIndex(values, v) <= FirstIndex(values, w)

\* C15: for a non-empty list the merged indentation_type and quote_style are
\* each the value held by the most files, the earliest first occurrence
\* winning a tie.
C15_MostFrequentKindFirstWins ==
    (pc = "done" /\ Len(fpatterns) > 0) =>
        /\ fmerged.indentation_type = MostFrequentFirst(FieldOf(fpatterns, "indentation_type"))
        /\ fmerged.quote_style = MostFrequentFirst(FieldOf(fpatterns, "quote_style"))

\* Two kinds tie and the one met first, which is not the first of the list
\* alone on grounds of count, has won.
C15_Witness ==
    /\ pc = "done" /\ Len(fpatterns) = 3
    /\ fpatterns[1].indentation_type # fpatterns[2].indentation_type
    /\ fpatterns[2].indentation_type = fpatterns[3].indentation_type
    /\ fmerged.indentation_type = fpatterns[2].indentation_type
    /\ fpatterns[1].quote_style # fpatterns[2].quote_style
    /\ fpatterns[3].quote_style \notin {fpatterns[1].quote_style, fpatterns[2].quote_style}
    /\ fmerged.quote_style = fpatterns[1].quote_style

\* C16 as stated: the merged indentation_size is the most frequent per-file
\* indentation_size of the list, the first met winning a tie.
C16_MostFrequentSize ==
    (pc = "done" /\ Len(fpatterns) > 0) =>
        fmerged.indentation_size = MostFrequentFirst(FieldOf(fpatterns, "indentation_size"))

NonZeroSizes(pats) == SelectSeq(FieldOf(pats, "indentation_size"), LAMBDA n : n # 0)

\* C16 amended: the merged indentation_size is the most frequent among the
\* non-zero per-file sizes, the first met winning a tie, and 0 when every
\* file's size is 0.
C16_MostFrequentNonZeroSize ==
    (pc = "done" /\ Len(fpatterns) > 0) =>
        IF Len(NonZeroSizes(fpatterns)) = 0 THEN fmerged.indentation_size = 0
        ELSE fmerged.indentation_size = MostFrequentFirst(NonZeroSizes(fpatterns))

\* Most files have size 0 and the merged size is that of the one indented file.
C16_Witness ==
    /\ pc = "done" /\ Len(fpatterns) = 3
    /\ fpatterns[1].indentation_size = 0 /\ fpatterns[2].indentation_size = 0
    /\ fpatterns[3].indentation_size > 0
    /\ fmerged.indentation_size = fpatterns[3].indentation_size

\* C17: for a non-empty list the merged trailing_newline is true exactly when
\* every file's trailing_newline is true.
C17_TrailingNewlineIsAnd ==
    (pc = "done" /\ Len(fpatterns) > 0) =>
        (fmerged.trailing_newline <=>
            ~\E i \in DOMAIN fpatterns : ~fpatterns[i].trailing_newline)

\* Two files of three end with a newline and the merged value is false.
C17_Witness ==
    /\ pc = "done" /\ Len(fpatterns) = 3
    /\ Cardinality({i \in DOMAIN fpatterns : fpatterns[i].trailing_newline}) = 2
    /\ ~fmerged.trailing_newline

\* C18: for a non-empty list the merged line_length_max is the largest
\* per-file maximum and the merged line_length_mean is the mean of the
\* per-file means truncated to an integer, each file counting once.
C18_LineLengthMaxAndMean ==
    (pc = "done" /\ Len(fpatterns) > 0) =>
        LET n == Len(fpatterns)
            total == SumSeq(FieldOf(fpatterns, "line_length_mean"), 1)
        IN  /\ \E i \in DOMAIN fpatterns : fmerged.line_length_max = fpatterns[i].line_length_max
            /\ \A i \in DOMAIN fpatterns : fmerged.line_length_max >= fpatterns[i].line_length_max
            /\ fmerged.line_length_mean * n <= total
            /\ total < (fmerged.line_length_mean + 1) * n

\* The mean of the per-file means is not an integer and has been truncated.
C18_Witness ==
    /\ pc = "done" /\ Len(fpatterns) = 2
    /\ (fpatterns[1].line_length_mean + fpatterns[2].line_length_mean) % 2 = 1
    /\ 2 * fmerged.line_length_mean < fpatterns[1].line_length_mean + fpatterns[2].line_length_mean
    /\ fmerged.line_length_max > fpatterns[1].line_length_max

-----------------------------------------------------------------------------
\* Spec: one run of main of analyze_project.py

PyName(c) == <<c, ".", "p", "y">>

SourceFile(dirs, n, readable, c, t) ==
    [dirs |-> dirs, name |-> n, readable |-> readable, content |-> c, tree |-> t]

FileSnake ==
    SourceFile(<<>>, PyName("a"), TRUE, TextSpaces4,
               [ok |-> TRUE, nodes |-> <<FunctionDef(SnakeName, <<>>)>>])
FileCamel ==
    SourceFile(<<"src">>, PyName("b"), TRUE, TextTabs,
               [ok |-> TRUE, nodes |-> <<FunctionDef(CamelName, <<>>), ClassDef(PascalName)>>])
FileUnparsable == SourceFile(<<>>, PyName("c"), TRUE, TextSpaces2, ParseFailure)
FileUpperSuffix ==
    SourceFile(<<>>, <<"d", ".", "P", "Y">>, TRUE, TextSingle,
               [ok |-> TRUE, nodes |-> <<Assign(<<NameTarget(UpperSnakeName)>>)>>])
FileJs == SourceFile(<<>>, <<"e", ".", "j", "s">>, TRUE, TextMixed, NoTree)
FileTxt == SourceFile(<<>>, <<"f", ".", "t", "x", "t">>, TRUE, TextPlain, NoTree)
FileRs == SourceFile(<<>>, <<"g", ".", "r", "s">>, TRUE, TextPlain, NoTree)
FileUnreadable == SourceFile(<<>>, PyName("h"), FALSE, <<>>, NoTree)
FileInBuild ==
    SourceFile(<<"build">>, PyName("i"), TRUE, TextSpaces4,
               [ok |-> TRUE, nodes |-> <<FunctionDef(SnakeName, <<>>)>>])

DiskFiles ==
    {FileSnake, FileCamel, FileUnparsable, FileUpperSuffix, FileJs, FileTxt, FileRs,
     FileUnreadable, FileInBuild}

\* The lists of at most n different files
Disks(n) == {s \in SeqsUpTo(DiskFiles, n) : \A i, j \in DOMAIN s : s[i] = s[j] => i = j}

\* --extensions PY,txt,rs,py
CustomExtensions == <<<<".", "P", "Y">>, <<".", "t", "x", "t">>, <<".", "r", "s">>, <<".", "p", "y">>>>

\* --extensions py,.py
RepeatedExtensions == <<<<".", "p", "y">>, <<".", "p", "y">>>>

Roots == {<<"proj">>, <<"build", "proj">>}

Init ==
    /\ pc = "main"
    /\ CallsIdle /\ FormatMergeIdle /\ FileIdle
    /\ root \in Roots
    /\ root_exists \in BOOLEAN
    /\ extensions \in {DefaultExtensions, CustomExtensions, RepeatedExtensions}
    /\ disk \in Disks(MaxDisk)
    /\ (~root_exists => disk = <<>>)
    /\ files = <<>> /\ idx = 0 /\ reports_by_lang = <<>> /\ stderr = <<>>
    /\ report = <<>> /\ emitted = FALSE /\ exit_code = 0

\* main up to the loop of analyze_project: the path check, collect_files and
\* the return of {} when no file is found, on which main exits with status 1
Discover ==
    /\ pc = "main"
    /\ IF ~root_exists
       THEN /\ stderr' = Append(stderr, [kind |-> "path_not_found"])
            /\ exit_code' = 1
            /\ pc' = "exit"
            /\ UNCHANGED <<files, idx, reports_by_lang, report>>
       ELSE \E found \in {collect_files(root, disk, extensions)} :
                /\ files' = found
                /\ IF Len(found) = 0
                   THEN /\ stderr' = Append(stderr, [kind |-> "no_source_files"])
                        /\ report' = <<>>
                        /\ exit_code' = 1
                        /\ pc' = "exit"
                        /\ UNCHANGED <<idx, reports_by_lang>>
                   ELSE /\ reports_by_lang' = [l \in Languages |-> <<>>]
                        /\ idx' = 1
                        /\ pc' = "loop"
                        /\ UNCHANGED <<stderr, report, exit_code>>
    /\ UNCHANGED <<callVars, fmergeVars, fileVars, root, root_exists, extensions, disk, emitted>>

\* Variant: the loop body has no try/except, and the exception ends the run.
AnalyzeNext_no_except ==
    /\ pc = "loop"
    /\ \E r \in {analyze_file(files[idx])} :
           IF r.ok
           THEN /\ reports_by_lang' =
                       IF r.report.language \in DOMAIN reports_by_lang
                       THEN [reports_by_lang EXCEPT ![r.report.language] = Append(@, r.report)]
                       ELSE reports_by_lang
                /\ idx' = idx + 1
                /\ pc' = IF idx = Len(files) THEN "aggregate" ELSE "loop"
                /\ UNCHANGED <<stderr, exit_code>>
           ELSE /\ stderr' = Append(stderr, [kind |-> "traceback"])
                /\ exit_code' = 1
                /\ pc' = "exit"
                /\ UNCHANGED <<reports_by_lang, idx>>
    /\ UNCHANGED <<callVars, fmergeVars, fileVars, root, root_exists, extensions, disk, files,
                   report, emitted>>

\* One iteration of "for i, file_path in enumerate(files, 1)"
AnalyzeNext ==
    /\ pc = "loop"
    /\ \E r \in {analyze_file(files[idx])} :
           IF r.ok
           THEN /\ reports_by_lang' =
                       IF r.report.language \in DOMAIN reports_by_lang
                       THEN [reports_by_lang EXCEPT ![r.report.language] = Append(@, r.report)]
                       ELSE reports_by_lang
                /\ UNCHANGED stderr
           ELSE /\ stderr' = Append(stderr, Warning(files[idx]))
                /\ UNCHANGED reports_by_lang
    /\ idx' = idx + 1
    /\ pc' = IF idx = Len(files) THEN "aggregate" ELSE "loop"
    /\ UNCHANGED <<callVars, fmergeVars, fileVars, root, root_exists, extensions, disk, files,
                   report, emitted, exit_code>>

\* The aggregation of analyze_project, its return, and main printing or
\* writing the JSON document
Aggregate ==
    /\ pc = "aggregate"
    /\ report' \in Aggregated(root, files, reports_by_lang)
    /\ emitted' = TRUE
    /\ exit_code' = 0
    /\ pc' = "exit"
    /\ UNCHANGED <<callVars, fmergeVars, fileVars, root, root_exists, extensions, disk, files,
                   idx, reports_by_lang, stderr>>

Next == Discover \/ AnalyzeNext \/ Aggregate

Spec == Init /\ [][Next]_vars

-----------------------------------------------------------------------------
\* FairSpec: runs over files some of which cannot be read

FileBinary == SourceFile(<<"src">>, <<"k", ".", "j", "s">>, FALSE, <<>>, NoTree)

ReadFailureFiles == {FileSnake, FileUnparsable, FileJs, FileUnreadable, FileBinary}

InitFair ==
    /\ pc = "main"
    /\ CallsIdle /\ FormatMergeIdle /\ FileIdle
    /\ root = <<"proj">>
    /\ root_exists = TRUE
    /\ extensions = DefaultExtensions
    /\ disk \in {s \in SeqsUpTo(ReadFailureFiles, MaxDisk) :
                    \A i, j \in DOMAIN s : s[i] = s[j] => i = j}
    /\ files = <<>> /\ idx = 0 /\ reports_by_lang = <<>> /\ stderr = <<>>
    /\ report = <<>> /\ emitted = FALSE /\ exit_code = 0

\* The interpreter runs main to its end: a step that can be taken is taken
FairSpec == InitFair /\ [][Next]_vars /\ WF_vars(Next)

-----------------------------------------------------------------------------
\* Claims about the project run

Finished == pc = "exit" /\ emitted

\* Positions of files that were read and tagged with the language
ReadOf(l) == {i \in DOMAIN files : files[i].readable /\ detect_language(files[i].name) = l}

Unparsable(f) == f.readable /\ detect_language(f.name) = "python" /\ ~f.tree.ok

\* The sequence of the elements of s at the positions of keep, in order
RECURSIVE Restrict(_, _, _)
Restrict(s, keep, i) ==
    IF i > Len(s) THEN <<>>
    ELSE (IF i \in keep THEN <<s[i]>> ELSE <<>>) \o Restrict(s, keep, i + 1)

\* C11: when discovery finds no file below an existing directory, the run
\* emits a report with total_files = 0 and ends with the success status.
C11_EmptyCorpusIsSuccess ==
    (pc = "exit" /\ root_exists /\ files = <<>>) =>
        /\ exit_code = 0
        /\ emitted
        /\ "total_files" \in DOMAIN report
        /\ report.total_files = 0

\* C12: a python file that fails to parse is counted in python's file_count,
\* its formatting is merged with that of the other python files, its five
\* naming distributions are empty, and the merged naming is one the other
\* python files give without it.
C12_UnparsableFileKeepsFormattingOnly ==
    (Finished /\ \E i \in DOMAIN files : Unparsable(files[i])) =>
        LET py == ReadOf("python")
            parsed == {i \in py : files[i].tree.ok}
            entry == report.languages["python"]
        IN  /\ "python" \in DOMAIN report.languages
            /\ entry.file_count = Cardinality(py)
            /\ entry.formatting =
                   merge_formatting_patterns(
                       Restrict([i \in DOMAIN files |-> analyze_formatting(files[i].content)],
                                py, 1))
            /\ \A r \in Range(reports_by_lang["python"]) :
                   Unparsable(r.file_path) => \A role \in Roles : r.naming[role] = EmptyDict
            /\ entry.naming \in
                   merge_naming_patterns(
                       Restrict([i \in DOMAIN files |-> analyze_naming_python(files[i].tree)],
                                parsed, 1))

C12_Witness ==
    /\ Finished
    /\ \E i, j \in DOMAIN files :
           /\ Unparsable(files[i])
           /\ files[j].readable /\ files[j].tree.ok
           /\ detect_language(files[j].name) = "python"
    /\ report.languages["python"].naming # EmptyNamingPatterns

\* C13: when the run has ended, stderr holds a warning naming every file that
\* failed to parse.
C13_ParseFailureIsWarned ==
    pc = "exit" =>
        \A i \in DOMAIN files :
            Unparsable(files[i]) =>
                \E k \in DOMAIN stderr :
                    stderr[k].kind = "could_not_analyze" /\ stderr[k].file = files[i]

\* C14: the step over a file that cannot be read leaves the per-language
\* report lists as they are, appends a warning naming the file and moves to
\* the next file; a run standing at such a file goes on to visit every
\* remaining file and to emit its report.
C14_ReadFailureIsFileLocal ==
    /\ [][(pc = "loop" /\ ~files[idx].readable) =>
              /\ reports_by_lang' = reports_by_lang
              /\ stderr' = Append(stderr, Warning(files[idx]))
              /\ idx' = idx + 1
              /\ pc' \in {"loop", "aggregate"}
              /\ files' = files]_vars
    /\ [](((pc = "loop") /\ (\E i \in idx..Len(files) : ~files[i].readable)) =>
              <>(Finished /\ idx = Len(files) + 1 /\ exit_code = 0))

C14_Witness ==
    /\ Finished
    /\ \E i, j \in DOMAIN files :
           /\ i < j
           /\ ~files[i].readable
           /\ files[j].readable
           /\ \E l \in DOMAIN report.languages :
                  \E r \in Range(reports_by_lang[l]) : r.file_path = files[j]
    /\ \E k \in DOMAIN stderr : stderr[k].kind = "could_not_analyze"

\* C19: a language is a key of the report's languages exactly when at least
\* one file report was accumulated for it, and every entry has a file_count of
\* at least 1.
C19_LanguagePresentIffReports ==
    Finished =>
        /\ \A l \in Languages :
               l \in DOMAIN report.languages <=> Len(reports_by_lang[l]) >= 1
        /\ DOMAIN report.languages \subseteq Languages
        /\ \A l \in DOMAIN report.languages : report.languages[l].file_count >= 1

C19_Witness ==
    /\ Finished
    /\ \E l \in Languages : l \in DOMAIN report.languages
    /\ \E l \in Languages : l \notin DOMAIN report.languages

\* The languages whose list holds a report of the file
GroupsOf(f) ==
    {l \in DOMAIN reports_by_lang : \E r \in Range(reports_by_lang[l]) : r.file_path = f}

InTable(ext) == \E e \in LanguageTable : e[1] = ext

\* C20: once the loop is over, two read files whose extensions differ in
\* letter case only, whatever their content, are in the same language group
\* under the same tag; a read file whose lower-cased extension is not in the
\* table is tagged unknown, is in no group, and has no warning.
C20_LanguageByExtensionOnly ==
    pc \in {"aggregate", "exit"} /\ root_exists /\ files # <<>> =>
        /\ \A i, j \in DOMAIN files :
               /\ files[i].readable /\ files[j].readable
               /\ lower(suffix(files[i].name)) = lower(suffix(files[j].name))
               => /\ GroupsOf(files[i]) = GroupsOf(files[j])
                  /\ detect_language(files[i].name) = detect_language(files[j].name)
        /\ \A l \in DOMAIN reports_by_lang :
               \A r \in Range(reports_by_lang[l]) : r.language = l
        /\ \A i \in DOMAIN files :
               files[i].readable /\ ~InTable(lower(suffix(files[i].name)))
               => /\ detect_language(files[i].name) = "unknown"
                  /\ GroupsOf(files[i]) = {}
                  /\ \A k \in DOMAIN stderr : stderr[k] # Warning(files[i])

C20_Witness ==
    /\ Finished
    /\ \E i, j, k \in DOMAIN files :
           /\ files[i].name = PyName("a") /\ files[j].name = <<"d", ".", "P", "Y">>
           /\ files[i].content # files[j].content
           /\ GroupsOf(files[i]) = {"python"} /\ GroupsOf(files[j]) = {"python"}
           /\ files[k].name = <<"f", ".", "t", "x", "t">> /\ GroupsOf(files[k]) = {}

-----------------------------------------------------------------------------
\* Further claims about detect_naming_style

\* C29: detect_naming_style returns _private exactly for the names that begin
\* with '_' and are neither entirely uppercase nor entirely lowercase; a name
\* with a leading underscore is snake_case when all lowercase (_a) and
\* UPPER_SNAKE_CASE when all uppercase (_B); no two of the rules 1 to 4 match
\* the same name.
C29_PrivateOnlyForMixedOrUncased ==
    (pc = "done" /\ Len(name) > 0) =>
        /\ style = "_private" <=> (name[1] = "_" /\ ~isupper(name) /\ ~islower(name))
        /\ (name[1] = "_" /\ islower(name)) => style = "snake_case"
        /\ (name[1] = "_" /\ isupper(name)) => style = "UPPER_SNAKE_CASE"
        /\ \A i, j \in 1..4 : (RuleMatches(name)[i] /\ RuleMatches(name)[j]) => i = j

\* A mixed-case name and a name without cased letters, both with a leading
\* underscore, are told apart from an all-lowercase one.
C29_Witness ==
    /\ pc = "done"
    /\ name \in {<<"_", "a", "B">>, <<"_", "1">>, <<"_">>}
    /\ style = "_private"

-----------------------------------------------------------------------------
\* Further claims about the merges

\* C30: the aggregation leaves every accumulated file report as it is, and a
\* language with a single report gets that report's FormattingPatterns in all
\* six fields, an indentation_size of 0 included.
C30_SingletonFormattingMergeIsIdentity ==
    [][pc = "aggregate" =>
          /\ reports_by_lang' = reports_by_lang
          /\ \A l \in DOMAIN report'.languages :
                 Len(reports_by_lang[l]) = 1 =>
                     report'.languages[l].formatting = reports_by_lang[l][1].formatting]_vars

\* A language with one report whose indentation_size is 0 has been merged,
\* and so has one with one indented report.
C30_Witness ==
    /\ Finished
    /\ \E l \in DOMAIN report.languages :
           /\ Len(reports_by_lang[l]) = 1
           /\ reports_by_lang[l][1].formatting.indentation_size = 0
           /\ report.languages[l].formatting = reports_by_lang[l][1].formatting
    /\ \E l \in DOMAIN report.languages :
           /\ Len(reports_by_lang[l]) = 1
           /\ reports_by_lang[l][1].formatting.indentation_size > 0

-----------------------------------------------------------------------------
\* Further claims about the structural walk

\* The concatenation of f(s[i]) over the elements of s from i on
RECURSIVE FlatMap(_, _, _)
FlatMap(f(_), s, i) == IF i > Len(s) THEN <<>> ELSE f(s[i]) \o FlatMap(f, s, i + 1)

\* The ids of the simple-name targets of a node
TargetIds(node) ==
    IF node.type # "Assign" THEN <<>>
    ELSE FlatMap(LAMBDA t : IF t.kind = "Name" THEN <<t.id>> ELSE <<>>, node.targets, 1)

\* The names a node introduces: function name, parameters, simple targets
NamesOf(node) ==
    IF node.type = "FunctionDef" THEN <<node.name>> \o node.args ELSE TargetIds(node)

StylesOf(names) == [i \in DOMAIN names |-> detect_naming_style(names[i])]

\* C23: private_vars is the distribution of the tags of the de-marked names,
\* over every function name, function parameter and simple assignment target
\* that begins with '_'.
C23_EveryMarkedNameIsPrivate ==
    (pc = "done" /\ tree.ok) =>
        LET marked == SelectSeq(FlatMap(NamesOf, tree.nodes, 1), LAMBDA n : startswith(n, "_"))
        IN  naming.private_vars =
                calc_distribution([i \in DOMAIN marked |-> detect_naming_style(Tail1(marked[i]))])

-----------------------------------------------------------------------------
\* SpecRounding: runs over python files whose proportions are thirds

ThirdsTree ==
    [ok |-> TRUE,
     nodes |-> <<FunctionDef(SnakeName, <<>>), FunctionDef(CamelName, <<>>),
                 FunctionDef(CamelName, <<>>)>>]

FileThirdsA == SourceFile(<<>>, PyName("m"), TRUE, TextSpaces4, ThirdsTree)
FileThirdsB == SourceFile(<<"src">>, PyName("n"), TRUE, TextSpaces2, ThirdsTree)

RoundingFiles == {FileSnake, FileCamel, FileThirdsA, FileThirdsB}

InitRounding ==
    /\ pc = "main"
    /\ CallsIdle /\ FormatMergeIdle /\ FileIdle
    /\ root = <<"proj">>
    /\ root_exists = TRUE
    /\ extensions = DefaultExtensions
    /\ disk \in {s \in SeqsUpTo(RoundingFiles, MaxDisk) :
                    \A i, j \in DOMAIN s : s[i] = s[j] => i = j}
    /\ files = <<>> /\ idx = 0 /\ reports_by_lang = <<>> /\ stderr = <<>>
    /\ report = <<>> /\ emitted = FALSE /\ exit_code = 0

SpecRounding == InitRounding /\ [][Next]_vars

\* The tags a file's walk collected for a role
RoleStyles(t, role) ==
    LET st == Walk(t.nodes, 1, EmptyStyles)
    IN  IF role = "variables" THEN st.var
        ELSE IF role = "functions" THEN st.func
        ELSE IF role = "classes" THEN st.class
        ELSE IF role = "constants" THEN st.const
        ELSE st.private

RECURSIVE ProductOf(_, _)
ProductOf(s, i) == IF i > Len(s) THEN 1 ELSE s[i] * ProductOf(s, i + 1)

\* The sum of counts[i] / totals[i] as a numerator over ProductOf(totals, 1)
RECURSIVE SumOfFractions(_, _, _)
SumOfFractions(counts, totals, i) ==
    IF i > Len(counts) THEN 0
    ELSE counts[i] * (ProductOf(totals, 1) \div totals[i]) + SumOfFractions(counts, totals, i + 1)

\* The hundredths nearest to the mean of the fractions counts[i] / totals[i]
\* (both neighbours when the mean is half-way)
RoundedMeanOfFractions(counts, totals) ==
    LET den == Len(counts) * ProductOf(totals, 1)
        num == 100 * SumOfFractions(counts, totals, 1)
    IN  {h \in 0..100 : 2 * (h * den - num) <= den /\ 2 * (num - h * den) <= den}

\* C22: for every role and tag, the merged value is the two-decimal rounding
\* of the mean of the unrounded proportions (tag count / role total) of the
\* files that have names of the role.
C22_RoundingOnlyAtReporting ==
    (Finished /\ "python" \in DOMAIN report.languages) =>
        \A role \in Roles :
            LET trees == [i \in DOMAIN reports_by_lang["python"] |->
                             reports_by_lang["python"][i].file_path.tree]
                used == SelectSeq(trees, LAMBDA t : t.ok /\ Len(RoleStyles(t, role)) > 0)
                totals == [i \in DOMAIN used |-> Len(RoleStyles(used[i], role))]
            IN  \A tag \in DOMAIN report.languages["python"].naming[role] :
                    report.languages["python"].naming[role][tag] \in
                        RoundedMeanOfFractions(
                            [i \in DOMAIN used |-> Count(RoleStyles(used[i], role), tag)],
                            totals)

-----------------------------------------------------------------------------
\* Further claims about the project run

\* The sum of file_count over the emitted languages
FileCountSum ==
    SumOver([l \in DOMAIN report.languages |-> report.languages[l].file_count],
            DOMAIN report.languages)

\* C26: in an emitted report the file_count values sum to at most
\* total_files, and to total_files exactly when every entry of the discovered
\* list was read and detected as one of python, javascript, typescript, cpp,
\* c, java, go; total_files is the length of the discovered list.
C26_FileCountsWithinTotal ==
    Finished =>
        /\ report.total_files = Len(files)
        /\ FileCountSum <= report.total_files
        /\ FileCountSum = report.total_files <=>
               \A i \in DOMAIN files :
                   /\ files[i].readable
                   /\ detect_language(files[i].name) \in
                          {"python", "javascript", "typescript", "cpp", "c", "java", "go"}

\* A report over a read python file, a rust file and a file that cannot be
\* read.
C26_Witness ==
    /\ Finished
    /\ FileCountSum = 1 /\ report.total_files = 3
    /\ \E i, j \in DOMAIN files :
           ~files[i].readable /\ files[j].readable /\ detect_language(files[j].name) = "rust"

\* C27: a file on disk that matches an extension is left out of the
\* discovered list exactly when one of the directories between the project
\* root and the file is in the exclude set, whatever the names of the root and
\* of its ancestors.
C27_ExcludedByDirectoryBelowRoot ==
    (pc # "main" /\ root_exists) =>
        \A i \in DOMAIN disk :
            (\E k \in DOMAIN extensions : MatchesExtension(disk[i].name, extensions[k])) =>
                ((\A j \in DOMAIN files : files[j] # disk[i])
                     <=> \E d \in DOMAIN disk[i].dirs : disk[i].dirs[d] \in ExcludeDirs)

\* C28: the discovered list holds no file twice, whatever the list of
\* extensions.
C28_NoFileDiscoveredTwice ==
    pc # "main" => \A i, j \in DOMAIN files : files[i] = files[j] => i = j

-----------------------------------------------------------------------------
\* SpecFile: one call of analyze_file

PlainFunction == FunctionDef(SnakeName, <<>>)
DocumentedFunction == FunctionDefFull(SnakeName, <<>>, <<>>, TRUE, <<"Docstring", "Pass">>)
AnnotatedFunction ==
    FunctionDefFull(CamelName, <<PlainName, PlainName>>, <<TRUE, TRUE>>, FALSE, <<"Docstring">>)
LongFunction ==
    FunctionDefFull(SnakeName, <<PlainName>>, <<TRUE>>, TRUE, <<"Pass", "Pass", "Pass">>)
LateStringFunction == FunctionDefFull(CamelName, <<PlainName>>, <<FALSE>>, FALSE, <<"Pass", "Docstring">>)

PatternNodes ==
    {PlainFunction, DocumentedFunction, AnnotatedFunction, LongFunction, LateStringFunction,
     ClassDef(PascalName), Assign(<<NameTarget(SnakeName)>>)}

FileNames ==
    {PyName("a"), <<"d", ".", "P", "Y">>, <<"e", ".", "j", "s">>, <<"f", ".", "t", "x", "t">>,
     <<"g", ".", "r", "s">>, <<"x">>}

InitFile ==
    /\ pc = "start"
    /\ CallsIdle /\ FormatMergeIdle /\ RunIdle
    /\ file_path \in
           {FileUnreadable}
           \cup {SourceFile(<<>>, n, TRUE, c, t) :
                    n \in FileNames, c \in {TextSpaces4, TextSingle},
                    t \in Trees(PatternNodes, MaxNodes)}
    /\ style_report = NoReport

\* analyze_file(file_path); pc is "raised" when read_text raises
AnalyzeFile ==
    /\ pc = "start"
    /\ \E r \in {analyze_file(file_path)} :
           /\ style_report' = r.report
           /\ pc' = IF r.ok THEN "done" ELSE "raised"
    /\ UNCHANGED <<file_path, callVars, fmergeVars, runVars>>

NextFile == AnalyzeFile

SpecFile == InitFile /\ [][NextFile]_vars

-----------------------------------------------------------------------------
\* Claims about analyze_file and the structural metrics

FunctionsOf(t) == SelectSeq(t.nodes, LAMBDA n : n.type = "FunctionDef")

\* C21: the report's formatting is the scanner's result for the content
\* whatever the language; for python the naming and the patterns are the
\* walker's results for the parsed content, so that a parsed file with a
\* function has a functions distribution and a function_count; for every
\* other language the five distributions and the patterns are empty.
C21_WalkerRunsOnlyForPython ==
    pc = "done" =>
        /\ style_report.formatting = analyze_formatting(file_path.content)
        /\ style_report.language = "python" =>
               /\ style_report.naming = analyze_naming_python(file_path.tree)
               /\ style_report.patterns = analyze_patterns_python(file_path.tree)
               /\ (file_path.tree.ok /\ Len(FunctionsOf(file_path.tree)) > 0) =>
                      /\ DOMAIN style_report.naming.functions # {}
                      /\ style_report.patterns.function_count > 0
        /\ style_report.language # "python" =>
               /\ \A r \in Roles : DOMAIN style_report.naming[r] = {}
               /\ DOMAIN style_report.patterns = {}

\* A file tagged unknown whose content would parse, with a function, was
\* analyzed: its formatting is filled and its naming is empty.
C21_Witness ==
    /\ pc = "done"
    /\ style_report.language = "unknown"
    /\ file_path.tree.ok /\ Len(FunctionsOf(file_path.tree)) > 0
    /\ style_report.formatting.indentation_size = 4
    /\ style_report.naming = EmptyNamingPatterns

\* C25: in the metrics of a parsed python file the two counts are at most
\* function_count (the number of function definitions), each rate is the
\* hundredth nearest to count / function_count and lies between 0 and 1, and
\* the rates and the mean, max and min of function_length are 0 when there is
\* no function.
C25_RatesWithinFunctionCount ==
    (pc = "done" /\ style_report.language = "python" /\ file_path.tree.ok) =>
        LET m == style_report.patterns
            fc == m.function_count
            usages == {m.type_hint_usage, m.docstring_usage}
        IN  /\ fc = Len(FunctionsOf(file_path.tree))
            /\ \A u \in usages :
                   /\ 0 <= u.count /\ u.count <= fc
                   /\ 0 <= u.rate /\ u.rate <= 100
                   /\ fc > 0 => /\ 2 * (u.rate * fc - 100 * u.count) <= fc
                                /\ 2 * (100 * u.count - u.rate * fc) <= fc
                   /\ fc = 0 => u.rate = 0
            /\ fc = 0 => m.function_length = [mean |-> 0, max |-> 0, min |-> 0]

\* Three functions, one of them with two annotated parameters and a returns
\* annotation elsewhere: rates of 0.67 and 0.33.
C25_Witness ==
    /\ pc = "done" /\ style_report.language = "python" /\ file_path.tree.ok
    /\ style_report.patterns.function_count = 3
    /\ style_report.patterns.type_hint_usage = [count |-> 2, rate |-> 67]
    /\ style_report.patterns.docstring_usage = [count |-> 1, rate |-> 33]
    /\ \E i \in DOMAIN file_path.tree.nodes : file_path.tree.nodes[i] = AnnotatedFunction

====
